---- MODULE Spec2Model ----
(***************************************************************************)
(* ShopifyPulse: the synthetic metrics and recommendation generators of    *)
(* api/recommendations.py and api/analytics.py, as state machines.         *)
(*                                                                         *)
(* Units.  Python floats are modelled by exact integers:                   *)
(*   money           in cents            (revenue 6000.00 is 600000)       *)
(*   roi_score       in hundredths       (round(x, 2))                     *)
(*   conversion rate in thousandths      (5.0 is 5000), trend values in    *)
(*                   hundredths          (round(x, 2))                     *)
(*   retention       in tenths           (100 is 1000; round(x, 1))        *)
(*   random factors  in thousandths or hundredths, drawn from small sets   *)
(* Dates are day numbers; day d falls on weekday d % 7 (0 is Monday).      *)
(***************************************************************************)
EXTENDS Integers, Sequences, FiniteSets

VARIABLES
    utcnow,        \* datetime.utcnow(), in ticks
    rec_pc,        \* "idle" | "done": position of the recommendations request
    rec_store,     \* store_id of the last recommendations request
    rec_limit,     \* limit of the last recommendations request
    rec_selected,  \* the list generate_recommendations returned
    rec_response,  \* the payload api_recommendations answered
    today,         \* the calendar day datetime.now() falls on
    rt_pc,         \* "idle" | "loop" | "done": position in generate_revenue_trend
    rt_days,       \* its argument
    rt_i,          \* its loop index
    rt_trend,      \* its list of points
    rt_started,    \* the calendar day on which it was called
    rt_returned,   \* the calendar day on which it returned
    ct_pc,         \* "idle" | "loop" | "done": position in generate_conversion_trend
    ct_days,       \* its argument
    ct_i,          \* its loop index
    base_rate,     \* its running rate
    ct_trend,      \* its list of values
    co_pc,         \* "idle" | "outer" | "inner" | "done": position in generate_cohort_data
    co_i,          \* index of the cohort being built
    co_j,          \* index of the retention step
    retention,     \* retention list of the cohort being built
    cohorts,       \* the cohorts built so far
    api_pc,        \* "idle" | "done": position of the HTTP request being served
    api_request,   \* the last request: endpoint and query arguments
    api_response,  \* the last response: HTTP status and JSON body
    db_session,    \* objects added to db.session and not yet committed
    db_stores,     \* committed Store rows named 'UrbanThreads'
    db_rows,       \* committed StoreMetrics, FunnelStage and Recommendation rows
    impact_pc,     \* "idle" | "done": position of calculate_potential_impact
    impact_result, \* the dictionary calculate_potential_impact returned
    threads,       \* concurrent calls of generate_recommendations: their locals
    pools,         \* the recommendation_pool list objects, by owner
    sort_pc,       \* "idle" | "done": position of the ranking applied to a catalog
    sort_input,    \* the catalog handed to list.sort
    sort_output    \* the catalog after list.sort

rec_vars == <<utcnow, rec_pc, rec_store, rec_limit, rec_selected, rec_response>>
rev_vars == <<today, rt_pc, rt_days, rt_i, rt_trend, rt_started, rt_returned>>
conv_vars == <<ct_pc, ct_days, ct_i, base_rate, ct_trend>>
coh_vars == <<co_pc, co_i, co_j, retention, cohorts>>
web_vars == <<api_pc, api_request, api_response, db_session, db_stores, db_rows>>
imp_vars == <<impact_pc, impact_result>>
conc_vars == <<threads, pools>>
sort_vars == <<sort_pc, sort_input, sort_output>>
vars == <<rec_vars, rev_vars, conv_vars, coh_vars, web_vars, imp_vars,
          conc_vars, sort_vars>>

----------------------------------------------------------------------------
(* Bounds of the model *)

MaxLimit == 20
MaxNegLimit == 9
MaxClock == 2
MaxTrendDays == 3
MaxNegDays == 1
MaxMidnights == 1
MaxConvDays == 8
\* init-db runs: each adds a demo store.
MaxStores == 2
\* seed-data runs: each adds 90 days of metrics.
MaxSeedRuns == 2
\* The length of the catalogs the ranking is applied to.
MaxCatalog == 3
\* The threads serving requests at the same time.
MaxThreads == 2

StoreIds == {"demo", "store_a"}
LimitInputs == (0 - MaxNegLimit)..MaxLimit

\* Samples of random.uniform(0.85, 1.15), in thousandths.
RandomFactors == {850, 1003, 1150}
\* Samples of random.uniform(-0.15, 0.20), in thousandths; 0.005 puts the
\* running rate halfway between two hundredths.
Changes == {-150, 5, 72, 200}
\* Samples of random.uniform(0.35, 0.55), in hundredths.
RetentionFactors == {35, 55}
\* The calendar days a call may start on: one whole week.
StartDays == 7..13

----------------------------------------------------------------------------
(* Arithmetic helpers *)

Max(a, b) == IF a >= b THEN a ELSE b
Min(a, b) == IF a <= b THEN a ELSE b

\* round(n / d) for n >= 0, d > 0, ties to the even neighbour: Python's
\* round() on a value that is exactly representable.
RoundHalfEven(n, d) ==
    LET q == n \div d
        r == n % d
    IN  IF 2 * r > d THEN q + 1
        ELSE IF 2 * r < d THEN q
        ELSE IF q % 2 = 0 THEN q ELSE q + 1

\* round() of the float nearest to n / d: the nearest integer, and at an
\* exact tie either neighbour, since the float product the code rounds may
\* lie on either side of the tie.
RoundOutcomes(n, d) ==
    LET q == n \div d
        r == n % d
    IN  IF 2 * r > d THEN {q + 1}
        ELSE IF 2 * r < d THEN {q}
        ELSE {q, q + 1}

----------------------------------------------------------------------------
(* The recommendation engine, api/recommendations.py *)

RecRevenueAsEffort(id, category, priority, impact, effort, revenue, confidence) ==
    [id |-> id, category |-> category, priority |-> priority,
     impact_score |-> impact, effort_score |-> revenue,
     potential_revenue |-> effort, confidence |-> confidence]

Rec(id, category, priority, impact, effort, revenue, confidence) ==
    [id |-> id, category |-> category, priority |-> priority,
     impact_score |-> impact, effort_score |-> effort,
     potential_revenue |-> revenue, confidence |-> confidence]

\* The pool built afresh by every call (confidence in hundredths).
recommendation_pool ==
    << Rec("rec_001", "conversion", "critical", 92, 25,  8450, 89),
       Rec("rec_002", "retention",  "high",     78, 35, 12400, 85),
       Rec("rec_003", "conversion", "high",     85, 45, 18600, 91),
       Rec("rec_004", "revenue",    "medium",   72, 20,  9600, 82),
       Rec("rec_005", "inventory",  "critical", 88, 40, 28000, 95),
       Rec("rec_006", "operations", "medium",   65, 50,  4200, 76),
       Rec("rec_007", "lead_gen",   "high",     75, 15, 15600, 88),
       Rec("rec_008", "retention",  "medium",   70, 30, 18500, 84) >>

\* priority_order.get(priority, 4)
priority_order(p) ==
    CASE p = "critical" -> 0
      [] p = "high"     -> 1
      [] p = "medium"   -> 2
      [] p = "low"      -> 3
      [] OTHER          -> 4

\* -(a.impact/max(a.effort,1)) < -(b.impact/max(b.effort,1)), the quotients
\* compared exactly by cross-multiplication.
RatioAscending(a, b) ==
    a.impact_score * Max(b.effort_score, 1) < b.impact_score * Max(a.effort_score, 1)

RatioBefore(a, b) ==
    a.impact_score * Max(b.effort_score, 1) > b.impact_score * Max(a.effort_score, 1)

\* The sort key of a is strictly smaller than the sort key of b: tuples
\* (priority rank, -ratio) compared lexicographically.
KeyLessRatioOnly(a, b) == RatioBefore(a, b)

KeyLessOrEqual(a, b) ==
    \/ priority_order(a.priority) < priority_order(b.priority)
    \/ /\ priority_order(a.priority) = priority_order(b.priority)
       /\ ~RatioBefore(b, a)

KeyLess(a, b) ==
    \/ priority_order(a.priority) < priority_order(b.priority)
    \/ /\ priority_order(a.priority) = priority_order(b.priority)
       /\ RatioBefore(a, b)

\* list.sort is stable: x goes after every element whose key is not greater.
RECURSIVE InsertSorted(_, _)
InsertSorted(x, s) ==
    IF s = << >> THEN << x >>
    ELSE IF KeyLess(x, Head(s)) THEN << x >> \o s
    ELSE << Head(s) >> \o InsertSorted(x, Tail(s))

RECURSIVE SortPool(_)
SortPool(s) ==
    IF s = << >> THEN << >>
    ELSE InsertSorted(s[Len(s)], SortPool(SubSeq(s, 1, Len(s) - 1)))

\* Python's s[:limit]: a negative limit counts from the end.
SliceKeepAll(s, limit) == s

SliceLast(s, limit) ==
    LET count == IF limit < 0 THEN Max(Len(s) + limit, 0) ELSE Min(limit, Len(s))
    IN  SubSeq(s, Len(s) - count + 1, Len(s))

SliceTo(s, limit) ==
    LET stop == IF limit < 0 THEN Max(Len(s) + limit, 0) ELSE Min(limit, Len(s))
    IN  SubSeq(s, 1, stop)

\* round(potential_revenue / max(effort_score, 1), 2), in hundredths.
RoiUnrounded(rec) ==
    (100 * rec.potential_revenue) \div Max(rec.effort_score, 1)

roi_score(rec) ==
    RoundHalfEven(100 * rec.potential_revenue, Max(rec.effort_score, 1))

\* The metadata loop over the selected records.
Stamp(rec, store_id, now) ==
    [id |-> rec.id, category |-> rec.category, priority |-> rec.priority,
     impact_score |-> rec.impact_score, effort_score |-> rec.effort_score,
     potential_revenue |-> rec.potential_revenue, confidence |-> rec.confidence,
     generated_at |-> now, store_id |-> store_id, roi_score |-> roi_score(rec)]

generate_recommendations(store_id, limit, now) ==
    LET selected == SliceTo(SortPool(recommendation_pool), limit)
    IN  [k \in 1..Len(selected) |-> Stamp(selected[k], store_id, now)]

\* GET /api/v1/recommendations?store_id=&limit= with a numeric limit.
api_recommendations(store_id, limit) ==
    /\ rec_pc = "idle"
    /\ LET recommendations == generate_recommendations(store_id, limit, utcnow)
       IN  /\ rec_selected' = recommendations
           /\ rec_response' = [success |-> TRUE, data |-> recommendations,
                               count |-> Len(recommendations),
                               generated_at |-> utcnow]
    /\ rec_store' = store_id
    /\ rec_limit' = limit
    /\ rec_pc' = "done"
    /\ UNCHANGED <<utcnow, rev_vars, conv_vars, coh_vars, web_vars, imp_vars, conc_vars, sort_vars>>

\* The response has been sent; the next request may arrive.
RecNextRequest ==
    /\ rec_pc = "done"
    /\ rec_pc' = "idle"
    /\ UNCHANGED <<utcnow, rec_store, rec_limit, rec_selected, rec_response>>
    /\ UNCHANGED <<rev_vars, conv_vars, coh_vars, web_vars, imp_vars, conc_vars, sort_vars>>

\* Time passes between requests.
Tick ==
    /\ utcnow < MaxClock
    /\ utcnow' = utcnow + 1
    /\ UNCHANGED <<rec_pc, rec_store, rec_limit, rec_selected, rec_response>>
    /\ UNCHANGED <<rev_vars, conv_vars, coh_vars, web_vars, imp_vars, conc_vars, sort_vars>>

\* sum(...) over a list of numbers.
RECURSIVE Sum(_)
Sum(values) == IF values = << >> THEN 0 ELSE values[1] + Sum(Tail(values))

\* reality_factor = 0.6, in thousandths.
reality_factor == 600
\* generate_recommendations('demo', limit=20)
impact_limit == 20

\* r['priority'] == 'critical'
AnyPriority(r) == TRUE

IsCritical(r) == r.priority = "critical"

\* r['effort_score'] < 30
IsQuickWinInclusive(r) == r.effort_score <= 30

IsQuickWin(r) == r.effort_score < 30

\* round(dollars * reality_factor * months, 2), in cents.
Discounted(dollars, month_count) ==
    RoundHalfEven(dollars * reality_factor * month_count, 10)

\* The dictionary calculate_potential_impact builds from the list that
\* generate_recommendations returned.
impact_of(recommendations) ==
    LET revenues == [k \in 1..Len(recommendations) |->
                        recommendations[k].potential_revenue]
        criticals == SelectSeq(recommendations, IsCritical)
        total_potential == Sum(revenues)
        critical_potential == Sum([k \in 1..Len(criticals) |->
                                      criticals[k].potential_revenue])
    IN  [total_potential_monthly |-> Discounted(total_potential, 1),
         total_potential_annual |-> Discounted(total_potential, 12),
         critical_potential |-> Discounted(critical_potential, 1),
         quick_wins |-> Len(SelectSeq(recommendations, IsQuickWin)),
         implementation_time_total |->
             Sum([k \in 1..Len(recommendations) |->
                     recommendations[k].effort_score]) \div 10]

\* calculate_potential_impact(store_metrics); the argument is not read.
calculate_potential_impact(store_metrics) ==
    /\ impact_pc = "idle"
    /\ impact_result' =
          impact_of(generate_recommendations("demo", impact_limit, utcnow))
    /\ impact_pc' = "done"
    /\ UNCHANGED <<rec_vars, rev_vars, conv_vars, coh_vars, web_vars, conc_vars, sort_vars>>

\* No call is in progress: no result is held.
NoImpact == [quick_wins |-> 0]

\* The caller has taken the result; the function may be called again.
ImpactNextCall ==
    /\ impact_pc = "done"
    /\ impact_pc' = "idle"
    /\ impact_result' = NoImpact
    /\ UNCHANGED <<rec_vars, rev_vars, conv_vars, coh_vars, web_vars, conc_vars, sort_vars>>

\* Samples of the store_metrics argument (conversion rate in hundredths).
StoreMetricsInputs == {[conversion_rate |-> 546], [conversion_rate |-> 120]}

RecInit ==
    /\ utcnow = 0
    /\ rec_pc = "idle"
    /\ rec_store = "demo"
    /\ rec_limit = 0
    /\ rec_selected = << >>
    /\ rec_response = [success |-> TRUE, data |-> << >>, count |-> 0,
                       generated_at |-> 0]

RecNext ==
    \/ \E store_id \in StoreIds, limit \in LimitInputs :
          api_recommendations(store_id, limit)
    \/ RecNextRequest
    \/ \E store_metrics \in StoreMetricsInputs : calculate_potential_impact(store_metrics)
    \/ ImpactNextCall
    \/ Tick

----------------------------------------------------------------------------
(* The trend generator, api/analytics.py: generate_revenue_trend *)

base_revenue == 6000
\* Cents per order (78) and visitors per 10000 orders' worth (0.0546).
AovCents == 7800
ConversionPerTenThousand == 546

\* date.weekday() of day number d: 0 is Monday.
weekday(d) == d % 7

\* weekend_boost, in tenths: 1.3 on Saturday and Sunday, else 1.0.
weekend_boost(d) == IF weekday(d) >= 5 THEN 13 ELSE 10

\* growth_factor = 1 + i * 0.002, in thousandths.
growth_factor(i) == 1000 + 2 * i

\* round(base_revenue * weekend_boost * random_factor * growth_factor, 2), in
\* cents: base * 100 * (wb / 10) * (rf / 1000) * (gf / 1000), with the
\* factor 100 of the denominator 100000 divided out of base_revenue.
RevenueOutcomes(d, rf, i) ==
    RoundOutcomes((base_revenue \div 100) * weekend_boost(d) * rf * growth_factor(i),
                  1000)

\* int(revenue / 78)
OrdersRounded(cents) == RoundHalfEven(cents, AovCents)

OrdersOf(cents) == cents \div AovCents

\* int(orders / 0.0546)
VisitorsOf(orders) == (orders * 10000) \div ConversionPerTenThousand

\* date = datetime.now() - timedelta(days=days-i-1), read in every iteration.
DateOf(now_day, days, i) == now_day - (days - i - 1)

generate_revenue_trend(days) ==
    /\ rt_pc = "idle"
    /\ rt_pc' = "loop"
    /\ rt_days' = days
    /\ rt_i' = 0
    /\ rt_trend' = << >>
    /\ rt_started' = today
    /\ UNCHANGED <<today, rt_returned, rec_vars, conv_vars, coh_vars, web_vars, imp_vars, conc_vars, sort_vars>>

\* One iteration of "for i in range(days)".
RevenueLoopStep ==
    /\ rt_pc = "loop"
    /\ rt_i < rt_days
    /\ \E random_factor \in RandomFactors :
          LET date == DateOf(today, rt_days, rt_i)
          IN  \E revenue \in RevenueOutcomes(date, random_factor, rt_i) :
                 rt_trend' = Append(rt_trend,
                                [date |-> date, revenue |-> revenue,
                                 orders |-> OrdersOf(revenue),
                                 visitors |-> VisitorsOf(OrdersOf(revenue))])
    /\ rt_i' = rt_i + 1
    /\ UNCHANGED <<today, rt_pc, rt_days, rt_started, rt_returned>>
    /\ UNCHANGED <<rec_vars, conv_vars, coh_vars, web_vars, imp_vars, conc_vars, sort_vars>>

\* range(days) is exhausted (at once when days <= 0): return trend.
RevenueReturn ==
    /\ rt_pc = "loop"
    /\ rt_i >= rt_days
    /\ rt_pc' = "done"
    /\ rt_returned' = today
    /\ UNCHANGED <<today, rt_days, rt_i, rt_trend, rt_started>>
    /\ UNCHANGED <<rec_vars, conv_vars, coh_vars, web_vars, imp_vars, conc_vars, sort_vars>>

\* The wall clock passes midnight.
Midnight ==
    /\ today < 13 + MaxMidnights
    /\ today' = today + 1
    /\ UNCHANGED <<rt_pc, rt_days, rt_i, rt_trend, rt_started, rt_returned>>
    /\ UNCHANGED <<rec_vars, conv_vars, coh_vars, web_vars, imp_vars, conc_vars, sort_vars>>

RevQuiet ==
    /\ rt_pc = "idle"
    /\ rt_days = 0
    /\ rt_i = 0
    /\ rt_trend = << >>
    /\ rt_started = 7
    /\ rt_returned = 7

RevInit ==
    /\ today \in StartDays
    /\ RevQuiet

RevNext ==
    \/ \E days \in (0 - MaxNegDays)..MaxTrendDays : generate_revenue_trend(days)
    \/ RevenueLoopStep
    \/ RevenueReturn
    \/ Midnight

----------------------------------------------------------------------------
(* The trend generator, api/analytics.py: generate_conversion_trend *)

\* max(4.0, min(6.5, x)), in thousandths.
ClampNone(x) == x

ClampSwapped(x) == Min(4000, Max(6500, x))

Clamp(x) == Max(4000, Min(6500, x))

generate_conversion_trend(days) ==
    /\ ct_pc = "idle"
    /\ ct_pc' = "loop"
    /\ ct_days' = days
    /\ ct_i' = 0
    /\ base_rate' = 5000
    /\ ct_trend' = << >>
    /\ UNCHANGED <<rec_vars, rev_vars, coh_vars, web_vars, imp_vars, conc_vars, sort_vars>>

\* One iteration of "for i in range(days)".
ConversionLoopStep ==
    /\ ct_pc = "loop"
    /\ ct_i < ct_days
    /\ \E change \in Changes :
          /\ base_rate' = Clamp(base_rate + change)
          /\ \E rounded \in RoundOutcomes(base_rate', 10) :
                ct_trend' = Append(ct_trend, rounded)
    /\ ct_i' = ct_i + 1
    /\ UNCHANGED <<ct_pc, ct_days>>
    /\ UNCHANGED <<rec_vars, rev_vars, coh_vars, web_vars, imp_vars, conc_vars, sort_vars>>

ConversionReturn ==
    /\ ct_pc = "loop"
    /\ ct_i >= ct_days
    /\ ct_pc' = "done"
    /\ UNCHANGED <<ct_days, ct_i, base_rate, ct_trend>>
    /\ UNCHANGED <<rec_vars, rev_vars, coh_vars, web_vars, imp_vars, conc_vars, sort_vars>>

ConvInit ==
    /\ ct_pc = "idle"
    /\ ct_days = 0
    /\ ct_i = 0
    /\ base_rate = 5000
    /\ ct_trend = << >>

ConvNext ==
    \/ \E days \in (0 - MaxNegDays)..MaxConvDays : generate_conversion_trend(days)
    \/ ConversionLoopStep
    \/ ConversionReturn

----------------------------------------------------------------------------
(* The cohort generator, api/analytics.py: generate_cohort_data *)

months == << "Jan", "Feb", "Mar", "Apr", "May", "Jun" >>

\* customers = 400 + (i * 50), i counted from 0.
customers(i) == 400 + (i * 50)

\* range(5 - i): the number of decay steps of cohort i (from 0).
RetentionStepsFixed(i) == 5

RetentionSteps(i) == 5 - i

\* retention[-1], the value the next decay step multiplies.
DecayFromFirst(r) == r[1]

DecayFrom(r) == r[Len(r)]

generate_cohort_data ==
    /\ co_pc = "idle"
    /\ co_pc' = "outer"
    /\ co_i' = 0
    /\ cohorts' = << >>
    /\ UNCHANGED <<co_j, retention, rec_vars, rev_vars, conv_vars, web_vars, imp_vars, conc_vars, sort_vars>>

\* "for i, month in enumerate(months)": start cohort i with retention = [100].
CohortBegin ==
    /\ co_pc = "outer"
    /\ co_i < Len(months)
    /\ retention' = << 1000 >>
    /\ co_j' = 0
    /\ co_pc' = "inner"
    /\ UNCHANGED <<co_i, cohorts, rec_vars, rev_vars, conv_vars, web_vars, imp_vars, conc_vars, sort_vars>>

\* One iteration of "for j in range(5 - i)".
RetentionStep ==
    /\ co_pc = "inner"
    /\ co_j < RetentionSteps(co_i)
    /\ \E factor \in RetentionFactors :
          \E rounded \in RoundOutcomes(DecayFrom(retention) * factor, 100) :
             retention' = Append(retention, rounded)
    /\ co_j' = co_j + 1
    /\ UNCHANGED <<co_pc, co_i, cohorts, rec_vars, rev_vars, conv_vars, web_vars, imp_vars, conc_vars, sort_vars>>

\* cohorts.append({...}) and the next month.
CohortAppend ==
    /\ co_pc = "inner"
    /\ co_j >= RetentionSteps(co_i)
    /\ cohorts' = Append(cohorts, [month |-> months[co_i + 1],
                                   customers |-> customers(co_i),
                                   retention |-> retention])
    /\ co_i' = co_i + 1
    /\ co_pc' = "outer"
    /\ UNCHANGED <<co_j, retention, rec_vars, rev_vars, conv_vars, web_vars, imp_vars, conc_vars, sort_vars>>

CohortReturn ==
    /\ co_pc = "outer"
    /\ co_i >= Len(months)
    /\ co_pc' = "done"
    /\ UNCHANGED <<co_i, co_j, retention, cohorts, rec_vars, rev_vars, conv_vars, web_vars, imp_vars, conc_vars, sort_vars>>

CohInit ==
    /\ co_pc = "idle"
    /\ co_i = 0
    /\ co_j = 0
    /\ retention = << >>
    /\ cohorts = << >>

CohNext ==
    \/ generate_cohort_data
    \/ CohortBegin
    \/ RetentionStep
    \/ CohortAppend
    \/ CohortReturn

----------------------------------------------------------------------------
(* The funnel model, api/analytics.py: get_funnel_data *)

\* One entry of 'stages'.  Rates and benchmark in tenths of a percent
\* (60.7 is 607); the optional 'insight' text is left out.
StageSwapped(name, visitors, conversions, rate, dropoff, benchmark, percentile, value, status) ==
    [name |-> name, visitors |-> conversions, conversions |-> visitors,
     conversion_rate |-> rate, dropoff_rate |-> dropoff,
     industry_benchmark |-> benchmark, percentile |-> percentile,
     value |-> value, status |-> status]

StageDropoffAsRate(name, visitors, conversions, rate, dropoff, benchmark, percentile, value, status) ==
    [name |-> name, visitors |-> visitors, conversions |-> conversions,
     conversion_rate |-> rate, dropoff_rate |-> rate,
     industry_benchmark |-> benchmark, percentile |-> percentile,
     value |-> value, status |-> status]

Stage(name, visitors, conversions, rate, dropoff, benchmark, percentile, value, status) ==
    [name |-> name, visitors |-> visitors, conversions |-> conversions,
     conversion_rate |-> rate, dropoff_rate |-> dropoff,
     industry_benchmark |-> benchmark, percentile |-> percentile,
     value |-> value, status |-> status]

FunnelStagesFromCart ==
    << Stage("Add to Cart",       22500,  6750,  300, 700,  250, 72, 526500, "good"),
       Stage("Checkout Started",   6750,  4050,  600, 400,  550, 58, 315900, "warning"),
       Stage("Purchase Complete",  4050,  2458,  607, 393,  700, 35, 191716, "critical") >>

funnel_stages ==
    << Stage("Visit",             45000, 45000, 1000,   0, 1000, 50,      0, "normal"),
       Stage("Product View",      45000, 22500,  500, 500,  450, 65,      0, "good"),
       Stage("Add to Cart",       22500,  6750,  300, 700,  250, 72, 526500, "good"),
       Stage("Checkout Started",   6750,  4050,  600, 400,  550, 58, 315900, "warning"),
       Stage("Purchase Complete",  4050,  2458,  607, 393,  700, 35, 191716, "critical") >>

\* 'overall', rates in hundredths of a percent.
funnel_overall ==
    [visit_to_purchase_rate |-> 546, industry_average |-> 320,
     revenue_at_risk |-> 124184, potential_recovery |-> 74400]

\* trends['7d'], in hundredths.
funnel_trend_7d == << 510, 530, 520, 540, 550, 560, 546 >>

\* The random draws of one call, sampled as a repeating pair of changes.
\* (Whole draws only: the halfway sample is followed step by step in the
\* loop model of generate_conversion_trend.)
ChangeStreams == {<< c1, c2 >> : c1, c2 \in {c \in Changes : c % 10 # 5}}

ChangeAt(stream, k) == stream[((k - 1) % Len(stream)) + 1]

\* generate_conversion_trend(days) run to its end on one stream of draws:
\* the lists it can return, after i iterations with running rate 'rate'.
RECURSIVE conversion_trends(_, _, _, _)
conversion_trends(days, i, rate, stream) ==
    IF i >= days THEN {<< >>}
    ELSE LET next_rate == Clamp(rate + ChangeAt(stream, i + 1))
         IN  {<< rounded >> \o rest :
                 rounded \in RoundOutcomes(next_rate, 10),
                 rest \in conversion_trends(days, i + 1, next_rate, stream)}

get_funnel_data(store_id, period, trend_30d) ==
    [store_id |-> store_id, period |-> period,
     stages |-> funnel_stages,
     overall |-> funnel_overall,
     trends |-> [d7 |-> funnel_trend_7d, d30 |-> trend_30d]]

----------------------------------------------------------------------------
(* The dashboard model, api/analytics.py: get_dashboard_metrics *)

\* days = {'7d': 7, '30d': 30, '90d': 90, '1y': 365}.get(period, 30)
PeriodDaysStrict(period) ==
    CASE period = "7d"  -> 7
      [] period = "30d" -> 30
      [] period = "90d" -> 90
      [] period = "1y"  -> 365
      [] OTHER          -> 0

PeriodDays(period) ==
    CASE period = "7d"  -> 7
      [] period = "30d" -> 30
      [] period = "90d" -> 90
      [] period = "1y"  -> 365
      [] OTHER          -> 30

\* The draws of one call of generate_revenue_trend, sampled as a repeating
\* sequence of random factors.
FactorStreams == {<< 850, 1150 >>, << 1003 >>, << 1150, 1003, 850 >>}

LargestOf(S) == CHOOSE x \in S : \A y \in S : x >= y
SmallestOf(S) == CHOOSE x \in S : \A y \in S : x <= y

\* generate_revenue_trend(days) run to its end: the call starts on day
\* now_day; when crossing > 0 the wall clock passes midnight just before
\* iteration 'crossing'; an exact rounding tie goes up or down with 'up'.
revenue_trend_of(days, now_day, crossing, factors, up) ==
    [k \in 1..Max(days, 0) |->
        LET i       == k - 1
            now     == IF crossing > 0 /\ i >= crossing THEN now_day + 1 ELSE now_day
            date    == DateOf(now, days, i)
            rf      == factors[(i % Len(factors)) + 1]
            outs    == RevenueOutcomes(date, rf, i)
            revenue == IF up THEN LargestOf(outs) ELSE SmallestOf(outs)
        IN  [date |-> date, revenue |-> revenue,
             orders |-> OrdersOf(revenue),
             visitors |-> VisitorsOf(OrdersOf(revenue))]]

\* The inner loop of generate_cohort_data run to its end on one factor.
RECURSIVE retention_of(_, _, _, _)
retention_of(r, steps, factor, up) ==
    IF steps <= 0 THEN r
    ELSE LET outs == RoundOutcomes(DecayFrom(r) * factor, 100)
             next == IF up THEN LargestOf(outs) ELSE SmallestOf(outs)
         IN  retention_of(Append(r, next), steps - 1, factor, up)

\* generate_cohort_data() run to its end; average_retention_3m in tenths.
cohort_data_of(factor, up) ==
    [months |-> months,
     cohorts |-> [k \in 1..Len(months) |->
                    [month |-> months[k],
                     customers |-> customers(k - 1),
                     retention |-> retention_of(<< 1000 >>, RetentionSteps(k - 1),
                                                factor, up)]],
     average_ltv |-> 156,
     average_retention_3m |-> 285]

\* 'summary': money in whole units, rates and changes in hundredths.
dashboard_summary ==
    [total_revenue |-> 191667, revenue_change |-> 1250,
     total_orders |-> 2458, orders_change |-> 830,
     total_visitors |-> 45000, visitors_change |-> -210,
     conversion_rate |-> 546, conversion_change |-> 40,
     aov |-> 7800, aov_change |-> 320,
     ltv |-> 15600, ltv_change |-> 510]

\* One entry of 'traffic_sources' or 'device_breakdown'; conversion in tenths.
Share(visitors, percentage, conversion) ==
    [visitors |-> visitors, percentage |-> percentage, conversion |-> conversion]

traffic_sources ==
    [organic |-> Share(15750, 35, 42), paid |-> Share(11250, 25, 68),
     social |-> Share(9000, 20, 35), email |-> Share(6750, 15, 82),
     direct |-> Share(2250, 5, 51)]

device_breakdown ==
    [desktop |-> Share(18000, 40, 62), mobile |-> Share(22500, 50, 48),
     tablet |-> Share(4500, 10, 55)]

Product(name, revenue, units, conversion) ==
    [name |-> name, revenue |-> revenue, units |-> units, conversion |-> conversion]

top_products ==
    << Product("Vintage Denim Jacket", 28500, 300, 72),
       Product("Streetwear Hoodie", 22400, 280, 65),
       Product("Graphic Tee Bundle", 18900, 450, 81),
       Product("Canvas Sneakers", 15600, 195, 58),
       Product("Urban Backpack", 12300, 123, 69) >>

\* 'benchmarks': store and industry in hundredths.
Benchmark(store, industry, percentile) ==
    [store |-> store, industry |-> industry, percentile |-> percentile]

dashboard_benchmarks ==
    [conversion_rate |-> Benchmark(546, 320, 85),
     aov |-> Benchmark(7800, 6500, 72),
     ltv_cac_ratio |-> Benchmark(320, 250, 78)]

get_dashboard_metrics(store_id, period, now_day, crossing, factors, factor, up) ==
    [store_id |-> store_id, period |-> period,
     summary |-> dashboard_summary,
     revenue_trend |-> revenue_trend_of(PeriodDays(period), now_day, crossing,
                                        factors, up),
     traffic_sources |-> traffic_sources,
     device_breakdown |-> device_breakdown,
     top_products |-> top_products,
     cohort_analysis |-> cohort_data_of(factor, up),
     benchmarks |-> dashboard_benchmarks]

----------------------------------------------------------------------------
(* The HTTP endpoints, app.py *)

\* Samples of the 'period' query argument: the four known codes and two others.
Periods == {"7d", "30d", "90d", "1y", "14d", ""}

Request(endpoint, store_id, period, limit) ==
    [endpoint |-> endpoint, store_id |-> store_id, period |-> period,
     limit |-> limit]

\* The 'limit' query argument: absent, or its text as a sequence of characters.
NoLimit == [present |-> FALSE, text |-> << >>]
LimitText(text) == [present |-> TRUE, text |-> text]

LimitArgs ==
    {NoLimit} \cup
    {LimitText(t) : t \in {<< "5" >>, << " ", "7", " " >>, << "+", "3" >>,
                           << "-", "1" >>, << "2", "0" >>, << "1", "_", "0" >>,
                           << "0" >>, << "a", "b", "c" >>, << "3", ".", "5" >>,
                           << >>, << "-" >>, << "1", "_" >>}}

\* jsonify(body), with Flask's default status 200.
Ok(body) == [status |-> 200, json |-> TRUE, body |-> body]

FailAsOk(status, message) ==
    [status |-> 200, json |-> TRUE,
     body |-> [success |-> FALSE, error |-> message]]

\* jsonify({'success': False, 'error': message}), status
Fail(status, message) ==
    [status |-> status, json |-> TRUE,
     body |-> [success |-> FALSE, error |-> message]]

\* An exception no handler answers (debug or testing mode re-raises it):
\* the server's traceback page, not a JSON body.
Propagated(exception) ==
    [status |-> 500, json |-> FALSE, body |-> [exception |-> exception]]

\* Python's int() on a string: surrounding blanks stripped, an optional
\* sign, then decimal digits, single underscores allowed between digits.
Digits == << "0", "1", "2", "3", "4", "5", "6", "7", "8", "9" >>
IsDigit(c) == \E k \in 1..Len(Digits) : Digits[k] = c
DigitValue(c) == (CHOOSE k \in 1..Len(Digits) : Digits[k] = c) - 1

RECURSIVE StripLeft(_)
StripLeft(t) == IF t # << >> /\ t[1] = " " THEN StripLeft(Tail(t)) ELSE t

RECURSIVE StripRight(_)
StripRight(t) ==
    IF t # << >> /\ t[Len(t)] = " " THEN StripRight(SubSeq(t, 1, Len(t) - 1)) ELSE t

Unsigned(t) ==
    LET stripped == StripRight(StripLeft(t))
    IN  IF stripped # << >> /\ stripped[1] \in {"+", "-"} THEN Tail(stripped)
        ELSE stripped

IsNegative(t) ==
    LET stripped == StripRight(StripLeft(t))
    IN  stripped # << >> /\ stripped[1] = "-"

\* int(t) returns a value; otherwise it raises ValueError.
IsIntText(t) ==
    LET body == Unsigned(t)
    IN  /\ body # << >>
        /\ \A k \in 1..Len(body) :
              \/ IsDigit(body[k])
              \/ /\ body[k] = "_"
                 /\ 1 < k /\ k < Len(body)
                 /\ IsDigit(body[k - 1]) /\ IsDigit(body[k + 1])

RECURSIVE DigitsValue(_, _)
DigitsValue(body, acc) ==
    IF body = << >> THEN acc
    ELSE IF body[1] = "_" THEN DigitsValue(Tail(body), acc)
    ELSE DigitsValue(Tail(body), 10 * acc + DigitValue(body[1]))

IntOf(t) ==
    IF IsNegative(t) THEN 0 - DigitsValue(Unsigned(t), 0)
    ELSE DigitsValue(Unsigned(t), 0)

\* @app.errorhandler(500): db.session.rollback(), then the JSON answer.
InternalErrorLeaksDetail(session) ==
    [session |-> 0, response |-> Fail(500, "ValueError")]

internal_error(session) ==
    [session |-> 0, response |-> Fail(500, "Internal server error")]

\* GET /api/v1/metrics/dashboard?store_id=&period=
\* 'today' is the day the request arrives on; the clock may pass midnight
\* while the revenue trend is built.
api_dashboard_metrics(store_id, period) ==
    /\ api_pc = "idle"
    /\ \E crossing \in 0..MaxMidnights, factors \in FactorStreams,
          factor \in RetentionFactors, up \in BOOLEAN :
          api_response' = Ok([success |-> TRUE,
                              data |-> get_dashboard_metrics(store_id, period, today,
                                          crossing, factors, factor, up),
                              generated_at |-> utcnow])
    /\ api_request' = Request("dashboard", store_id, period, NoLimit)
    /\ api_pc' = "done"
    /\ UNCHANGED <<db_session, db_stores, db_rows>>
    /\ UNCHANGED <<rec_vars, rev_vars, conv_vars, coh_vars, imp_vars, conc_vars, sort_vars>>

\* GET /api/v1/metrics/funnel?store_id=&period=
api_funnel_data(store_id, period) ==
    /\ api_pc = "idle"
    /\ \E stream \in ChangeStreams :
          \E trend_30d \in conversion_trends(30, 0, 5000, stream) :
             api_response' = Ok([success |-> TRUE,
                                 data |-> get_funnel_data(store_id, period, trend_30d),
                                 generated_at |-> utcnow])
    /\ api_request' = Request("funnel", store_id, period, NoLimit)
    /\ api_pc' = "done"
    /\ UNCHANGED <<db_session, db_stores, db_rows>>
    /\ UNCHANGED <<rec_vars, rev_vars, conv_vars, coh_vars, imp_vars, conc_vars, sort_vars>>

\* int(request.args.get('limit', 5))
default_limit == 5

\* GET /api/v1/recommendations?store_id=&limit=
\* A limit text int() rejects raises ValueError out of the view: the 500
\* handler answers, or the exception is re-raised when the application
\* runs in debug or testing mode.
api_recommendations_raw(store_id, limit_arg) ==
    /\ api_pc = "idle"
    /\ IF limit_arg.present /\ ~IsIntText(limit_arg.text)
       THEN \E propagate \in BOOLEAN :
               IF propagate
               THEN /\ api_response' = Propagated("ValueError")
                    /\ db_session' = db_session
               ELSE /\ api_response' = internal_error(db_session).response
                    /\ db_session' = internal_error(db_session).session
       ELSE LET limit == IF limit_arg.present THEN IntOf(limit_arg.text)
                         ELSE default_limit
                recommendations == generate_recommendations(store_id, limit, utcnow)
            IN  /\ api_response' = Ok([success |-> TRUE,
                                       data |-> recommendations,
                                       count |-> Len(recommendations),
                                       generated_at |-> utcnow])
                /\ db_session' = db_session
    /\ api_request' = Request("recommendations", store_id, "", limit_arg)
    /\ api_pc' = "done"
    /\ UNCHANGED <<db_stores, db_rows>>
    /\ UNCHANGED <<rec_vars, rev_vars, conv_vars, coh_vars, imp_vars, conc_vars, sort_vars>>

\* The body of the health answer.
HealthBodyNoVersion(now) == [status |-> "healthy", timestamp |-> now]

health_body(now) ==
    [status |-> "healthy", timestamp |-> now, version |-> "1.0.0"]

\* GET /api/v1/health
health_check ==
    /\ api_pc = "idle"
    /\ api_response' = Ok(health_body(utcnow))
    /\ api_request' = Request("health", "", "", NoLimit)
    /\ api_pc' = "done"
    /\ UNCHANGED <<db_session, db_stores, db_rows>>
    /\ UNCHANGED <<rec_vars, rev_vars, conv_vars, coh_vars, imp_vars, conc_vars, sort_vars>>

\* GET /api/v1/store/overview?store_id= ; conversion_rate in tenths.
api_store_overview(store_id) ==
    /\ api_pc = "idle"
    /\ api_response' =
          Ok([success |-> TRUE,
              data |-> [id |-> store_id, name |-> "UrbanThreads",
                        platform |-> "Shopify",
                        url |-> "urbanthreads-demo.myshopify.com",
                        annual_revenue |-> 2300000, monthly_visitors |-> 45000,
                        conversion_rate |-> 32, aov |-> 78, ltv |-> 156,
                        tier |-> "Scale",
                        connected_at |-> "2024-01-15T10:30:00Z",
                        last_sync |-> utcnow, health_score |-> 87]])
    /\ api_request' = Request("overview", store_id, "", NoLimit)
    /\ api_pc' = "done"
    /\ UNCHANGED <<db_session, db_stores, db_rows>>
    /\ UNCHANGED <<rec_vars, rev_vars, conv_vars, coh_vars, imp_vars, conc_vars, sort_vars>>

\* The two literal alerts; created_at is utcnow less the given age.
alerts(now) ==
    << [id |-> "alert_001", type |-> "warning", impact |-> "high",
        created_at |-> [now |-> now, less |-> "2 hours"]],
       [id |-> "alert_002", type |-> "opportunity", impact |-> "medium",
        potential_revenue |-> "$2,400/month",
        created_at |-> [now |-> now, less |-> "1 day"]] >>

\* GET /api/v1/alerts?store_id=
api_alerts(store_id) ==
    /\ api_pc = "idle"
    /\ api_response' = Ok([success |-> TRUE, data |-> alerts(utcnow),
                           count |-> Len(alerts(utcnow))])
    /\ api_request' = Request("alerts", store_id, "", NoLimit)
    /\ api_pc' = "done"
    /\ UNCHANGED <<db_session, db_stores, db_rows>>
    /\ UNCHANGED <<rec_vars, rev_vars, conv_vars, coh_vars, imp_vars, conc_vars, sort_vars>>

\* @app.errorhandler(404): a request for a URL no route matches.
not_found ==
    /\ api_pc = "idle"
    /\ api_response' = Fail(404, "Not found")
    /\ api_request' = Request("unknown", "", "", NoLimit)
    /\ api_pc' = "done"
    /\ UNCHANGED <<db_session, db_stores, db_rows>>
    /\ UNCHANGED <<rec_vars, rev_vars, conv_vars, coh_vars, imp_vars, conc_vars, sort_vars>>

\* The init-db command: create_all(), add the demo store, commit.
init_db ==
    /\ api_pc = "idle"
    /\ db_stores < MaxStores
    /\ db_stores' = db_stores + 1
    /\ db_session' = 0
    /\ UNCHANGED <<api_pc, api_request, api_response, db_rows>>
    /\ UNCHANGED <<rec_vars, rev_vars, conv_vars, coh_vars, imp_vars, conc_vars, sort_vars>>

\* The seed-data command, utils/seed_data.py: generate_sample_data().
\* The demo store is added only if no Store named 'UrbanThreads' is found;
\* then 90 StoreMetrics, 30 x 5 FunnelStage and 3 Recommendation rows are
\* added and committed.
generate_sample_data ==
    /\ api_pc = "idle"
    /\ db_rows.metrics < 90 * MaxSeedRuns
    /\ db_stores' = IF db_stores = 0 THEN 1 ELSE db_stores
    /\ db_rows' = [metrics |-> db_rows.metrics + 90,
                   funnel_stages |-> db_rows.funnel_stages + 30 * 5,
                   recommendations |-> db_rows.recommendations + 3]
    /\ db_session' = 0
    /\ UNCHANGED <<api_pc, api_request, api_response>>
    /\ UNCHANGED <<rec_vars, rev_vars, conv_vars, coh_vars, imp_vars, conc_vars, sort_vars>>

\* No request is being served: nothing of a request or response is kept.
NoRequest == Request("", "", "", NoLimit)
NoResponse == [status |-> 0, json |-> FALSE, body |-> [success |-> FALSE]]

\* The response has been sent and is gone; the next request may arrive.
\* Only the database outlives a request.
ApiNextRequest ==
    /\ api_pc = "done"
    /\ api_pc' = "idle"
    /\ api_request' = NoRequest
    /\ api_response' = NoResponse
    /\ UNCHANGED <<db_session, db_stores, db_rows>>
    /\ UNCHANGED <<rec_vars, rev_vars, conv_vars, coh_vars, imp_vars, conc_vars, sort_vars>>

\* Time passes between requests.
ApiTick ==
    /\ utcnow < MaxClock
    /\ utcnow' = utcnow + 1
    /\ UNCHANGED <<rec_pc, rec_store, rec_limit, rec_selected, rec_response>>
    /\ UNCHANGED <<rev_vars, conv_vars, coh_vars, web_vars, imp_vars, conc_vars, sort_vars>>

\* An empty database.
NoRows == [metrics |-> 0, funnel_stages |-> 0, recommendations |-> 0]

WebInit ==
    /\ api_pc = "idle"
    /\ api_request = NoRequest
    /\ api_response = NoResponse
    /\ db_session = 0
    /\ db_stores = 0
    /\ db_rows = NoRows

ImpInit ==
    /\ impact_pc = "idle"
    /\ impact_result = NoImpact

ApiNext ==
    \/ \E store_id \in StoreIds, period \in Periods : api_dashboard_metrics(store_id, period)
    \/ \E store_id \in StoreIds, period \in Periods : api_funnel_data(store_id, period)
    \/ \E store_id \in StoreIds, limit_arg \in LimitArgs : api_recommendations_raw(store_id, limit_arg)
    \/ health_check
    \/ \E store_id \in StoreIds : api_store_overview(store_id)
    \/ \E store_id \in StoreIds : api_alerts(store_id)
    \/ not_found
    \/ init_db
    \/ generate_sample_data
    \/ ApiNextRequest
    \/ ApiTick

----------------------------------------------------------------------------
(* The ranking as a function of the list it sorts, api/recommendations.py:
   recommendation_pool.sort(key=...) on catalogs other than the literal one *)

\* Entries a catalog may hold: equal ratios inside a tier and across tiers,
\* an effort of 0 and a priority the order does not know.
SortEntries ==
    { Rec("e_1", "conversion", "high",     50, 25, 1000, 80),
      Rec("e_2", "retention",  "high",     80, 40, 2000, 80),
      Rec("e_3", "revenue",    "critical", 30, 15, 3000, 80),
      Rec("e_4", "inventory",  "high",     90, 30, 4000, 80),
      Rec("e_5", "operations", "urgent",   10,  0, 5000, 80),
      Rec("e_6", "lead_gen",   "high",     40, 20, 6000, 80) }

\* The catalogs of at most MaxCatalog distinct entries, and the literal one.
SortCatalogs ==
    {recommendation_pool} \cup
    UNION {{c \in [1..n -> SortEntries] : \A j, k \in 1..n : j # k => c[j] # c[k]} :
             n \in 0..MaxCatalog}

\* recommendation_pool.sort(key=lambda x: (...)) applied to a catalog.
sort_catalog(pool) ==
    /\ sort_pc = "idle"
    /\ sort_input' = pool
    /\ sort_output' = SortPool(pool)
    /\ sort_pc' = "done"
    /\ UNCHANGED <<rec_vars, rev_vars, conv_vars, coh_vars, web_vars, imp_vars, conc_vars>>

\* The sorted list has been used; another catalog may be sorted.
SortNextCall ==
    /\ sort_pc = "done"
    /\ sort_pc' = "idle"
    /\ sort_input' = << >>
    /\ sort_output' = << >>
    /\ UNCHANGED <<rec_vars, rev_vars, conv_vars, coh_vars, web_vars, imp_vars, conc_vars>>

SortNext ==
    \/ \E pool \in SortCatalogs : sort_catalog(pool)
    \/ SortNextCall

----------------------------------------------------------------------------
(* Concurrent calls of generate_recommendations, api/recommendations.py:
   the threads of the server run the function's statements interleaved *)

\* The ids of the dicts of a list, in list order.
IdsOf(items) == [k \in 1..Len(items) |-> items[k].id]

ThreadIds == 1..MaxThreads

\* The limits the concurrent requests ask for.
ConcLimits == {0, 1, 3}

\* The list object a call sorts and stamps: "recommendation_pool = [...]"
\* is a statement of the function, so every call builds a list of its own.
SharedOwner(t) == 1

PoolOwner(t) == t

IdleThread ==
    [pc |-> "idle", kind |-> "", store_id |-> "", limit |-> 0,
     selected |-> << >>, i |-> 0,
     result |-> [items |-> << >>, impact |-> NoImpact]]

\* The dict with this id in a list.
Lookup(pool, id) == pool[CHOOSE k \in 1..Len(pool) : pool[k].id = id]

\* rec[...] = ... on the dict with this id: the three stamps of one item.
StampIn(pool, id, store_id, now) ==
    [k \in 1..Len(pool) |->
        IF pool[k].id = id THEN Stamp(pool[k], store_id, now) ELSE pool[k]]

\* A thread enters generate_recommendations(store_id, limit), from the
\* recommendations endpoint or from calculate_potential_impact.
conc_call(t, kind, store_id, limit) ==
    /\ threads[t].pc = "idle"
    /\ threads' = [threads EXCEPT ![t] =
                      [IdleThread EXCEPT !.pc = "build", !.kind = kind,
                                         !.store_id = store_id, !.limit = limit]]
    /\ UNCHANGED pools
    /\ UNCHANGED <<rec_vars, rev_vars, conv_vars, coh_vars, web_vars, imp_vars, sort_vars>>

\* recommendation_pool = [ {...}, ... ]
conc_build(t) ==
    /\ threads[t].pc = "build"
    /\ pools' = [pools EXCEPT ![PoolOwner(t)] = recommendation_pool]
    /\ threads' = [threads EXCEPT ![t].pc = "sort"]
    /\ UNCHANGED <<rec_vars, rev_vars, conv_vars, coh_vars, web_vars, imp_vars, sort_vars>>

\* recommendation_pool.sort(key=...), in place.
conc_sort(t) ==
    /\ threads[t].pc = "sort"
    /\ pools' = [pools EXCEPT ![PoolOwner(t)] = SortPool(@)]
    /\ threads' = [threads EXCEPT ![t].pc = "slice"]
    /\ UNCHANGED <<rec_vars, rev_vars, conv_vars, coh_vars, web_vars, imp_vars, sort_vars>>

\* selected = recommendation_pool[:limit]: a new list of the same dicts.
conc_slice(t) ==
    /\ threads[t].pc = "slice"
    /\ threads' = [threads EXCEPT
                      ![t].selected = IdsOf(SliceTo(pools[PoolOwner(t)], threads[t].limit)),
                      ![t].i = 0,
                      ![t].pc = "stamp"]
    /\ UNCHANGED pools
    /\ UNCHANGED <<rec_vars, rev_vars, conv_vars, coh_vars, web_vars, imp_vars, sort_vars>>

\* One iteration of "for rec in selected".
conc_stamp(t) ==
    /\ threads[t].pc = "stamp"
    /\ threads[t].i < Len(threads[t].selected)
    /\ pools' = [pools EXCEPT ![PoolOwner(t)] =
                    StampIn(@, threads[t].selected[threads[t].i + 1],
                            threads[t].store_id, utcnow)]
    /\ threads' = [threads EXCEPT ![t].i = @ + 1]
    /\ UNCHANGED <<rec_vars, rev_vars, conv_vars, coh_vars, web_vars, imp_vars, sort_vars>>

\* return selected; calculate_potential_impact then sums over the list.
conc_return(t) ==
    /\ threads[t].pc = "stamp"
    /\ threads[t].i >= Len(threads[t].selected)
    /\ LET items == [k \in 1..Len(threads[t].selected) |->
                        Lookup(pools[PoolOwner(t)], threads[t].selected[k])]
       IN  threads' = [threads EXCEPT
                          ![t].result = [items |-> items,
                                         impact |-> IF threads[t].kind = "impact"
                                                    THEN impact_of(items)
                                                    ELSE NoImpact],
                          ![t].pc = "done"]
    /\ UNCHANGED pools
    /\ UNCHANGED <<rec_vars, rev_vars, conv_vars, coh_vars, web_vars, imp_vars, sort_vars>>

\* The caller has used the result; the thread's list is garbage.
conc_next(t) ==
    /\ threads[t].pc = "done"
    /\ threads' = [threads EXCEPT ![t] = IdleThread]
    /\ pools' = [pools EXCEPT ![t] = << >>]
    /\ UNCHANGED <<rec_vars, rev_vars, conv_vars, coh_vars, web_vars, imp_vars, sort_vars>>

ConcInit ==
    /\ threads = [t \in ThreadIds |-> IdleThread]
    /\ pools = [t \in ThreadIds |-> << >>]

ConcNext ==
    \/ \E t \in ThreadIds, store_id \in StoreIds, limit \in ConcLimits :
          conc_call(t, "recommendations", store_id, limit)
    \/ \E t \in ThreadIds : conc_call(t, "impact", "demo", impact_limit)
    \/ \E t \in ThreadIds : conc_build(t)
    \/ \E t \in ThreadIds : conc_sort(t)
    \/ \E t \in ThreadIds : conc_slice(t)
    \/ \E t \in ThreadIds : conc_stamp(t)
    \/ \E t \in ThreadIds : conc_return(t)
    \/ \E t \in ThreadIds : conc_next(t)

----------------------------------------------------------------------------
(* Specifications: one per generator, the others at rest *)

\* No concurrent call is running and no list object exists.
ConcQuiet == threads = << >> /\ pools = << >>

\* No catalog has been handed to the ranking.
SortQuiet == sort_pc = "idle" /\ sort_input = << >> /\ sort_output = << >>

Rest == today = 7 /\ RevQuiet /\ WebInit /\ ImpInit /\ ConcQuiet /\ SortQuiet

InitRec == RecInit /\ Rest /\ ConvInit /\ CohInit
InitRevenue ==
    RecInit /\ RevInit /\ ConvInit /\ CohInit /\ WebInit /\ ImpInit /\ ConcQuiet /\ SortQuiet
InitApi == RecInit /\ Rest /\ ConvInit /\ CohInit
InitSort == RecInit /\ Rest /\ ConvInit /\ CohInit
InitConc ==
    RecInit /\ today = 7 /\ RevQuiet /\ WebInit /\ ImpInit /\ ConcInit /\ SortQuiet
       /\ ConvInit /\ CohInit
InitConversion == RecInit /\ Rest /\ ConvInit /\ CohInit
InitCohort == RecInit /\ Rest /\ ConvInit /\ CohInit

SpecRec == InitRec /\ [][RecNext]_vars
SpecRevenue == InitRevenue /\ [][RevNext]_vars
SpecConversion == InitConversion /\ [][ConvNext]_vars
SpecCohort == InitCohort /\ [][CohNext]_vars
SpecApi == InitApi /\ [][ApiNext]_vars
SpecSort == InitSort /\ [][SortNext]_vars
SpecConc == InitConc /\ [][ConcNext]_vars

----------------------------------------------------------------------------
(* Claims about the recommendation engine, checked under SpecRec *)

CatalogSize == Len(recommendation_pool)
CatalogIds == {recommendation_pool[k].id : k \in 1..CatalogSize}

\* The tier order the specification states: critical < high < medium < low,
\* anything else last.
TierRank(p) ==
    IF p = "critical" THEN 0
    ELSE IF p = "high" THEN 1
    ELSE IF p = "medium" THEN 2
    ELSE IF p = "low" THEN 3
    ELSE 4

SelectedIds == [k \in 1..Len(rec_selected) |-> rec_selected[k].id]

C2_TiersNeverGoBack ==
    \A j, k \in 1..Len(rec_selected) :
        j < k => TierRank(rec_selected[j].priority) <= TierRank(rec_selected[k].priority)

\* A high item with a larger impact/effort ratio than a critical item before it.
C2_Witness ==
    /\ rec_pc = "done"
    /\ \E j, k \in 1..Len(rec_selected) :
          /\ j < k
          /\ rec_selected[j].priority = "critical"
          /\ rec_selected[k].priority = "high"
          /\ rec_selected[k].impact_score * rec_selected[j].effort_score
                > rec_selected[j].impact_score * rec_selected[k].effort_score
    /\ \E k \in 1..Len(rec_selected) : rec_selected[k].priority = "medium"

\* C3: within one priority tier the items appear in non-increasing order of
\* impact_score / max(effort_score, 1); on the reference catalog limit=3
\* returns rec_001, rec_005, rec_007 in that order.
C3_RatioWithinTier ==
    /\ \A j, k \in 1..Len(rec_selected) :
          (j < k /\ rec_selected[j].priority = rec_selected[k].priority) =>
              rec_selected[j].impact_score * Max(rec_selected[k].effort_score, 1)
                 >= rec_selected[k].impact_score * Max(rec_selected[j].effort_score, 1)
    /\ (rec_pc = "done" /\ rec_limit = 3) =>
          SelectedIds = << "rec_001", "rec_005", "rec_007" >>

C3_Witness ==
    /\ rec_pc = "done"
    /\ rec_limit = 3
    /\ SelectedIds = << "rec_001", "rec_005", "rec_007" >>

\* C4 as stated: every emitted item carries the requested store_id, a
\* timestamp, and roi_score equal to potential_revenue / max(effort_score, 1).
C4_AsStated ==
    rec_pc = "done" =>
        \A k \in 1..Len(rec_selected) :
            /\ rec_selected[k].store_id = rec_store
            /\ rec_selected[k].generated_at \in 0..utcnow
            /\ rec_selected[k].roi_score * Max(rec_selected[k].effort_score, 1)
                  = 100 * rec_selected[k].potential_revenue

\* C4 amended: every emitted item carries the requested store_id, a
\* timestamp, and roi_score equal to potential_revenue / max(effort_score, 1)
\* rounded to 2 decimals (at most half a hundredth away from the quotient).
C4_StampedRounded ==
    rec_pc = "done" =>
        \A k \in 1..Len(rec_selected) :
            LET r == rec_selected[k]
                d == r.roi_score * Max(r.effort_score, 1) - 100 * r.potential_revenue
            IN  /\ r.store_id = rec_store
                /\ r.generated_at \in 0..utcnow
                /\ 2 * d <= Max(r.effort_score, 1)
                /\ 2 * (0 - d) <= Max(r.effort_score, 1)

\* An item of another store than "demo" whose quotient is not a whole number
\* of hundredths: rec_008, 18500 / 30.
C4_Witness ==
    /\ rec_pc = "done"
    /\ rec_store = "store_a"
    /\ \E k \in 1..Len(rec_selected) :
          /\ rec_selected[k].id = "rec_008"
          /\ rec_selected[k].roi_score = 61667
          /\ rec_selected[k].store_id = "store_a"

----------------------------------------------------------------------------
(* Claims about generate_revenue_trend, checked under SpecRevenue *)

TrendDates == [k \in 1..Len(rt_trend) |-> rt_trend[k].date]

\* C5 as stated: for days > 0 the call returns exactly days points whose
\* dates are consecutive calendar days in ascending order, the first being
\* today minus (days - 1) and the last being today, today being a calendar
\* day of the call.
C5_AsStated ==
    (rt_pc = "done" /\ rt_days > 0) =>
        /\ Len(rt_trend) = rt_days
        /\ \A k \in 1..(Len(rt_trend) - 1) : TrendDates[k + 1] = TrendDates[k] + 1
        /\ \E t \in rt_started..rt_returned :
              /\ TrendDates[1] = t - (rt_days - 1)
              /\ TrendDates[Len(rt_trend)] = t

\* C6: every point has orders == floor(revenue / 78) and
\* visitors == floor(orders / 0.0546), its revenue being 6000 x weekend
\* multiplier (1.0 or 1.3 by the point's weekday) x a random multiplier in
\* [0.85, 1.15] x growth 1 + i * 0.002, rounded to cents.
C6_OrdersVisitorsFloor ==
    \A k \in 1..Len(rt_trend) :
        LET p == rt_trend[k]
            wb == IF p.date % 7 \in {5, 6} THEN 13 ELSE 10
            gf == 1000 + 2 * (k - 1)
        IN  /\ p.orders * 7800 <= p.revenue
            /\ p.revenue < (p.orders + 1) * 7800
            /\ p.visitors * 546 <= p.orders * 10000
            /\ p.orders * 10000 < (p.visitors + 1) * 546
            /\ 1000 * p.revenue + 500 >= 60 * wb * 850 * gf
            /\ 1000 * p.revenue - 500 <= 60 * wb * 1150 * gf

\* A finished trend with a weekend point, a weekday point, growth applied and
\* a revenue that is no whole number of orders.
C6_Witness ==
    /\ rt_pc = "done"
    /\ Len(rt_trend) >= 2
    /\ \E j, k \in 1..Len(rt_trend) :
          /\ rt_trend[j].date % 7 >= 5
          /\ rt_trend[k].date % 7 < 5
          /\ k > 1
          /\ rt_trend[k].revenue % 7800 # 0
          /\ 2 * (rt_trend[k].revenue % 7800) > 7800

\* C7 as stated: a call with days <= 0 is rejected with InvalidArgument and
\* returns no trend sequence, so it never reaches its return statement.
C7_AsStated ==
    rt_days <= 0 => rt_pc # "done"

----------------------------------------------------------------------------
(* Claims about generate_conversion_trend, checked under SpecConversion *)

\* C8: for every days >= 0 the call returns exactly days values, every value
\* lies in [4.0, 6.5], and the running rate never leaves that interval.
C8_ConversionBounded ==
    /\ (ct_pc = "done" /\ ct_days >= 0) => Len(ct_trend) = ct_days
    /\ \A k \in 1..Len(ct_trend) : ct_trend[k] >= 400 /\ ct_trend[k] <= 650
    /\ base_rate >= 4000 /\ base_rate <= 6500

\* The walk was stopped at the upper bound: eight steps of +0.20 from 5.0.
C8_Witness ==
    /\ ct_pc = "done"
    /\ ct_days = 8
    /\ Len(ct_trend) = 8
    /\ ct_trend[8] = 650
    /\ ct_trend[7] = 640

----------------------------------------------------------------------------
(* Claims about generate_cohort_data, checked under SpecCohort *)

\* C9: the call returns exactly 6 cohorts, oldest first; cohort i (from 0)
\* has a retention sequence of length 5 - i + 1 starting at exactly 100, so
\* the newest cohort has exactly one retention point.
C9_CohortShape ==
    /\ co_pc = "done" =>
          /\ Len(cohorts) = 6
          /\ Len(cohorts[6].retention) = 1
    /\ \A k \in 1..Len(cohorts) :
          /\ cohorts[k].month = << "Jan", "Feb", "Mar", "Apr", "May", "Jun" >>[k]
          /\ Len(cohorts[k].retention) = 5 - (k - 1) + 1
          /\ cohorts[k].retention[1] = 1000

C9_Witness ==
    /\ co_pc = "done"
    /\ Len(cohorts) = 6
    /\ Len(cohorts[1].retention) = 6
    /\ cohorts[6].retention = << 1000 >>

\* Each value after the first lies between 0.35 and 0.55 times its
\* predecessor, within half a tenth, is smaller than it, and is positive.
Decaying(r) ==
    \A k \in 2..Len(r) :
        /\ 100 * r[k] <= 55 * r[k - 1] + 50
        /\ 100 * r[k] >= 35 * r[k - 1] - 50
        /\ r[k] < r[k - 1]
        /\ r[k] > 0

\* C10: in every retention sequence each value after the first is
\* <= previous x 0.55 and >= previous x 0.35 within rounding to 1 decimal;
\* each sequence is strictly decreasing and stays positive.
C10_RetentionDecays ==
    /\ \A k \in 1..Len(cohorts) : Decaying(cohorts[k].retention)
    /\ co_pc = "inner" => Decaying(retention)

\* The longest sequence at its fastest decay, and one at its slowest.
C10_Witness ==
    /\ co_pc = "done"
    /\ cohorts[1].retention[6] = 5
    /\ cohorts[2].retention[5] \in {91, 92}


----------------------------------------------------------------------------
(* Claims about the funnel payload, checked under SpecApi *)

\* The last request was served by /api/v1/metrics/funnel.
FunnelServed == api_request.endpoint = "funnel"

ServedStages == api_response.body.data.stages

StageNames(stages) == [k \in 1..Len(stages) |-> stages[k].name]

FivePipeline ==
    << "Visit", "Product View", "Add to Cart", "Checkout Started", "Purchase Complete" >>

\* C11: in the funnel payload, for every adjacent pair of stages the
\* conversions of stage i equal the visitors of stage i+1.
C11_StagesChain ==
    FunnelServed =>
        \A k \in 1..(Len(ServedStages) - 1) :
            ServedStages[k].conversions = ServedStages[k + 1].visitors

\* A funnel response with a real drop between two adjacent stages.
C11_Witness ==
    /\ FunnelServed
    /\ api_pc = "done"
    /\ \E k \in 1..(Len(ServedStages) - 1) :
          /\ ServedStages[k].conversions < ServedStages[k].visitors
          /\ ServedStages[k].conversions = ServedStages[k + 1].visitors

\* C12: every stage of the funnel payload has visitors >= conversions and
\* dropoff_rate = 100 - conversion_rate (rates in tenths of a percent).
C12_StageArithmetic ==
    FunnelServed =>
        \A k \in 1..Len(ServedStages) :
            /\ ServedStages[k].visitors >= ServedStages[k].conversions
            /\ ServedStages[k].dropoff_rate = 1000 - ServedStages[k].conversion_rate

\* A served stage whose rate is not a whole percent: 60.7 and 39.3.
C12_Witness ==
    /\ FunnelServed
    /\ api_pc = "done"
    /\ \E k \in 1..Len(ServedStages) :
          /\ ServedStages[k].conversion_rate % 10 # 0
          /\ ServedStages[k].dropoff_rate = 1000 - ServedStages[k].conversion_rate
          /\ ServedStages[k].visitors > ServedStages[k].conversions

\* C13, as the specification states it: status is a function of
\* conversion_rate against industry_benchmark only; the entry stage is
\* 'normal', any other stage at or above its benchmark is 'good', only
\* stages below their benchmark are 'warning' or 'critical', and equal
\* differences give equal statuses.
C13_AsStated ==
    FunnelServed =>
        /\ ServedStages[1].status = "normal"
        /\ \A k \in 2..Len(ServedStages) :
              /\ ServedStages[k].conversion_rate >= ServedStages[k].industry_benchmark
                    => ServedStages[k].status = "good"
              /\ ServedStages[k].status \in {"warning", "critical"}
                    => ServedStages[k].conversion_rate < ServedStages[k].industry_benchmark
        /\ \A j, k \in 1..Len(ServedStages) :
              (ServedStages[j].conversion_rate - ServedStages[j].industry_benchmark
                 = ServedStages[k].conversion_rate - ServedStages[k].industry_benchmark)
                    => ServedStages[j].status = ServedStages[k].status

\* C14: for every store_id and period and on every request, the funnel
\* endpoint answers success true with a 'stages' field of exactly the five
\* stages Visit, Product View, Add to Cart, Checkout Started, Purchase
\* Complete, in that order.
C14_FixedPipeline ==
    FunnelServed =>
        /\ api_response.status = 200
        /\ api_response.body.success = TRUE
        /\ "stages" \in DOMAIN api_response.body.data
        /\ Len(ServedStages) = 5
        /\ StageNames(ServedStages) = FivePipeline

\* A later request for another store with an unrecognised period.
C14_Witness ==
    /\ FunnelServed
    /\ api_pc = "done"
    /\ utcnow > 0
    /\ api_request.store_id # "demo"
    /\ api_request.period \notin {"7d", "30d", "90d", "1y"}
    /\ api_response.body.data.store_id = api_request.store_id
    /\ StageNames(ServedStages) = FivePipeline


----------------------------------------------------------------------------
(* Claims about the dashboard payload, checked under SpecApi *)

DashboardServed == api_request.endpoint = "dashboard"

\* The number of points the specification gives a period.
PointsFor(period) ==
    IF period = "7d" THEN 7
    ELSE IF period = "90d" THEN 90
    ELSE IF period = "1y" THEN 365
    ELSE 30

\* C15: the dashboard's revenue_trend has 7, 30, 90 or 365 points for
\* period 7d, 30d, 90d or 1y and exactly 30 points for any other period;
\* the endpoint answers success true with a data field, never an error.
C15_PeriodFallback ==
    DashboardServed =>
        /\ api_response.status = 200
        /\ api_response.body.success = TRUE
        /\ "data" \in DOMAIN api_response.body
        /\ Len(api_response.body.data.revenue_trend) = PointsFor(api_request.period)

\* An unrecognised period served with 30 points.
C15_Witness ==
    /\ DashboardServed
    /\ api_pc = "done"
    /\ api_request.period \in {"14d", ""}
    /\ Len(api_response.body.data.revenue_trend) = 30
    /\ api_response.body.data.period = api_request.period


----------------------------------------------------------------------------
(* Claims about the HTTP responses, checked under SpecApi *)

RecommendationsServed == api_request.endpoint = "recommendations"

\* The limit argument was given and int() rejects it.
BadLimit ==
    /\ RecommendationsServed
    /\ api_request.limit.present
    /\ ~IsIntText(api_request.limit.text)

\* C16, as the specification states it: a non-numeric limit fails with an
\* InvalidArgument error surfaced to the caller, neither defaulted nor
\* reported as an unexpected internal failure.
C16_AsStated ==
    BadLimit =>
        /\ api_response.json
        /\ api_response.body.success = FALSE
        /\ api_response.status \notin {200, 500}
        /\ api_response.body.error # "Internal server error"

\* A view or an error handler produced the response (an exception the
\* server re-raises is answered by neither).
HandlerAnswered ==
    /\ api_pc = "done"
    /\ api_response # Propagated("ValueError")

\* The envelope: JSON with a boolean 'success'; true goes with status 200,
\* false with an error message and status 404 or 500.
Enveloped ==
    /\ api_response.json
    /\ "success" \in DOMAIN api_response.body
    /\ api_response.body.success \in BOOLEAN
    /\ IF api_response.body.success
       THEN api_response.status = 200
       ELSE /\ "error" \in DOMAIN api_response.body
            /\ api_response.status \in {404, 500}

C18_HealthAlways ==
    api_request.endpoint = "health" =>
        /\ api_response.status = 200
        /\ api_response.json
        /\ api_response.body.status = "healthy"
        /\ {"timestamp", "version"} \subseteq DOMAIN api_response.body
        /\ api_response.body.timestamp <= utcnow

\* Health answered later on, with two demo stores in the database.
C18_Witness ==
    /\ api_request.endpoint = "health"
    /\ api_pc = "done"
    /\ db_stores >= 2
    /\ utcnow > 0
    /\ api_response.body.status = "healthy"


----------------------------------------------------------------------------
(* Claims about calculate_potential_impact, checked under SpecRec *)

ImpactReturned == impact_pc = "done"

\* Whole dollars of potential revenue over the catalog entries in 'ids'.
CatalogRevenue(ids) ==
    Sum([k \in 1..CatalogSize |->
            IF recommendation_pool[k].id \in ids
            THEN recommendation_pool[k].potential_revenue ELSE 0])

CriticalIds ==
    {recommendation_pool[k].id : k \in {j \in 1..CatalogSize :
                                          recommendation_pool[j].priority = "critical"}}

\* C19: total_potential_monthly is the sum of potential_revenue over all 8
\* catalog entries times 0.6, total_potential_annual is 12 times that, and
\* critical_potential is the sum over the 'critical' entries times 0.6 (all
\* to 2 decimals, here in cents), so critical_potential is at most the
\* monthly total.
C19_PotentialSums ==
    ImpactReturned =>
        /\ impact_result.total_potential_monthly = CatalogRevenue(CatalogIds) * 60
        /\ impact_result.total_potential_annual = CatalogRevenue(CatalogIds) * 60 * 12
        /\ impact_result.critical_potential = CatalogRevenue(CriticalIds) * 60
        /\ impact_result.critical_potential <= impact_result.total_potential_monthly

\* The reference catalog: 69210.00 a month, 830520.00 a year, 21870.00 critical.
C19_Witness ==
    /\ ImpactReturned
    /\ impact_result.total_potential_monthly = 6921000
    /\ impact_result.total_potential_annual = 83052000
    /\ impact_result.critical_potential = 2187000

\* C20: quick_wins counts the pooled recommendations with effort_score
\* strictly below 30, and implementation_time_total is the integer quotient
\* by 10 of the sum of effort_score, both over the whole 8-entry catalog.
C20_QuickWinsAndTime ==
    ImpactReturned =>
        /\ impact_result.quick_wins =
              Cardinality({k \in 1..CatalogSize :
                              recommendation_pool[k].effort_score < 30})
        /\ impact_result.implementation_time_total =
              Sum([k \in 1..CatalogSize |-> recommendation_pool[k].effort_score]) \div 10

\* Three quick wins (efforts 25, 20, 15; the entry at exactly 30 is not
\* one) and 260 \div 10 = 26, called after a truncated request was served.
C20_Witness ==
    /\ ImpactReturned
    /\ impact_result.quick_wins = 3
    /\ impact_result.implementation_time_total = 26
    /\ \E k \in 1..CatalogSize : recommendation_pool[k].effort_score = 30
    /\ rec_pc = "done"
    /\ rec_limit = 2


----------------------------------------------------------------------------
(* Claims about the catalog's value ranges, checked under SpecRec *)

Categories == {"conversion", "retention", "revenue", "inventory", "lead_gen", "operations"}
Priorities == {"critical", "high", "medium", "low"}

\* C22: every emitted recommendation has impact_score in [0, 100],
\* effort_score in [1, 100], confidence in [0, 1] (here in hundredths), a
\* category and a priority of the enumerations; so max(effort_score, 1) is
\* the effort_score itself and neither quotient divides by zero.
C22_EmittedInRange ==
    \A k \in 1..Len(rec_selected) :
        /\ rec_selected[k].impact_score \in 0..100
        /\ rec_selected[k].effort_score \in 1..100
        /\ rec_selected[k].confidence \in 0..100
        /\ rec_selected[k].category \in Categories
        /\ rec_selected[k].priority \in Priorities
        /\ Max(rec_selected[k].effort_score, 1) = rec_selected[k].effort_score
        /\ rec_selected[k].roi_score * rec_selected[k].effort_score
              <= 100 * rec_selected[k].potential_revenue + rec_selected[k].effort_score

\* The whole catalog has been emitted: all six categories and the three
\* priorities it holds are seen.
C22_Witness ==
    /\ rec_pc = "done"
    /\ Len(rec_selected) = CatalogSize
    /\ {rec_selected[k].category : k \in 1..Len(rec_selected)} = Categories
    /\ {rec_selected[k].priority : k \in 1..Len(rec_selected)}
          = {"critical", "high", "medium"}


----------------------------------------------------------------------------
(* Claims relating calls of generate_recommendations, checked under SpecRec *)

\* An item without the stamp of the call that emitted it.
Scores(item) ==
    [id |-> item.id, priority |-> item.priority,
     impact_score |-> item.impact_score, effort_score |-> item.effort_score,
     potential_revenue |-> item.potential_revenue,
     confidence |-> item.confidence, roi_score |-> item.roi_score]

ScoresOf(items) == [k \in 1..Len(items) |-> Scores(items[k])]

----------------------------------------------------------------------------
(* Claims about the walk of generate_conversion_trend, checked under
   SpecConversion *)

\* The recorded values: the first lies in [4.85, 5.20]; two neighbours
\* differ by -0.15 to +0.20, give or take the hundredth that rounding each
\* of them to 2 decimals can add.
C24_Recorded ==
    /\ Len(ct_trend) >= 1 => ct_trend[1] \in 485..520
    /\ \A k \in 2..Len(ct_trend) : ct_trend[k] - ct_trend[k - 1] \in -16..21

\* One loop iteration moves the running rate by -0.15 to +0.20 at most (the
\* clamp never lengthens a step), and records a rounding of it.
C24_Step ==
    (ct_pc = "loop" /\ ct_i' = ct_i + 1) =>
        /\ base_rate' - base_rate \in -150..200
        /\ Len(ct_trend') = Len(ct_trend) + 1
        /\ 10 * ct_trend'[Len(ct_trend')] - base_rate' \in -5..5

\* C24: generate_conversion_trend is a bounded random walk started at 5.0:
\* the first value lies in [4.85, 5.20] and every later value differs from
\* its predecessor by at most +0.20 and at least -0.15, within rounding to
\* 2 decimals, the clamp to [4.0, 6.5] only ever shrinking a step.
C24_BoundedWalk == [](C24_Recorded) /\ [][C24_Step]_vars

\* A recorded step of -0.16 between two rounded ties (5.005 recorded as
\* 5.01, then 4.855 as 4.85), and a last step the lower clamp cut short.
C24_Witness ==
    /\ ct_pc = "done"
    /\ \E k \in 2..Len(ct_trend) : ct_trend[k] - ct_trend[k - 1] = -16
    /\ \E k \in 2..Len(ct_trend) :
          ct_trend[k] = 400 /\ ct_trend[k - 1] - ct_trend[k] < 15


----------------------------------------------------------------------------
(* Claims about the database commands, checked under SpecApi *)

\* C27, as the specification states it: after any sequence of runs of the
\* seed-data and init-db commands at most one Store named 'UrbanThreads'
\* exists.
C27_AsStated == db_stores <= 1


----------------------------------------------------------------------------
(* Claims about the 500 handler, checked under SpecApi *)

InternalErrorBody == [success |-> FALSE, error |-> "Internal server error"]

C25_Answered ==
    (HandlerAnswered /\ api_response.status = 500) =>
        /\ api_response.json
        /\ api_response.body = InternalErrorBody
        /\ db_session = 0

\* A failing request, answered by the handler or re-raised, commits nothing.
C25_NothingWritten ==
    (api_pc = "idle" /\ BadLimit') =>
        /\ db_stores' = db_stores
        /\ db_rows' = db_rows
        /\ db_session' = 0

----------------------------------------------------------------------------
(* Claims about the ranking as a sort, checked under SpecSort *)

\* Where the entry with this id stands in a catalog.
PlaceOf(catalog, id) == CHOOSE k \in 1..Len(catalog) : catalog[k].id = id

SameTier(a, b) == TierRank(a.priority) = TierRank(b.priority)

SameRatio(a, b) ==
    a.impact_score * Max(b.effort_score, 1) = b.impact_score * Max(a.effort_score, 1)

\* C23: the ranking is a stable sort: two catalog entries of the same
\* priority tier and the same impact_score / max(effort_score, 1) ratio
\* appear in the output in their catalog order (and the output is a
\* rearrangement of the catalog).
C23_StableRanking ==
    sort_pc = "done" =>
        /\ Len(sort_output) = Len(sort_input)
        /\ {sort_output[k] : k \in 1..Len(sort_output)}
              = {sort_input[k] : k \in 1..Len(sort_input)}
        /\ \A j, k \in 1..Len(sort_output) :
              (j < k /\ SameTier(sort_output[j], sort_output[k])
                     /\ SameRatio(sort_output[j], sort_output[k]))
                 => PlaceOf(sort_input, sort_output[j].id)
                       < PlaceOf(sort_input, sort_output[k].id)

\* Two entries with equal keys (e_2 before e_1) behind which a critical
\* entry stood in the catalog: the sort moves the third and keeps the pair.
C23_Witness ==
    /\ sort_pc = "done"
    /\ Len(sort_input) = 3
    /\ IdsOf(sort_input) = << "e_2", "e_1", "e_3" >>
    /\ IdsOf(sort_output) = << "e_3", "e_2", "e_1" >>


----------------------------------------------------------------------------
(* Claims about interleaved requests, checked under SpecConc *)

\* What the call of thread t returns when it runs alone.
Alone(t) == generate_recommendations(threads[t].store_id, threads[t].limit, utcnow)

\* The dicts thread t has stamped so far.
StampedBy(t) ==
    {Lookup(pools[PoolOwner(t)], threads[t].selected[k]) : k \in 1..threads[t].i}

\* C21: however the calls of generate_recommendations (from the endpoint
\* and from calculate_potential_impact) interleave, each returns what it
\* returns alone, every item it stamps or returns carries its own store_id,
\* and no two running calls work on the same list.
C21_Isolated ==
    /\ \A t \in ThreadIds :
          threads[t].pc = "done" =>
             /\ threads[t].result.items = Alone(t)
             /\ \A k \in 1..Len(threads[t].result.items) :
                   /\ "store_id" \in DOMAIN threads[t].result.items[k]
                   /\ threads[t].result.items[k].store_id = threads[t].store_id
             /\ threads[t].kind = "impact" =>
                   threads[t].result.impact = impact_of(Alone(t))
    /\ \A t \in ThreadIds :
          threads[t].pc = "stamp" =>
             \A item \in StampedBy(t) :
                /\ "store_id" \in DOMAIN item
                /\ item.store_id = threads[t].store_id
    /\ \A t, u \in ThreadIds :
          (t # u /\ threads[t].pc \notin {"idle", "build"}
                 /\ threads[u].pc \notin {"idle", "build"})
             => PoolOwner(t) # PoolOwner(u)

\* A request for one store returned its three items while a
\* calculate_potential_impact call for 'demo' is half-way through stamping.
C21_Witness ==
    /\ threads[1].pc = "done"
    /\ threads[1].kind = "recommendations"
    /\ threads[1].store_id = "store_a"
    /\ Len(threads[1].result.items) = 3
    /\ threads[2].pc = "stamp"
    /\ threads[2].kind = "impact"
    /\ threads[2].i = 4

====
